---- MODULE Spec2Model ----
(***************************************************************************)
(* Model of the AI comparison relay in src/server.js: an Express server    *)
(* whose POST /api/compare handler validates a prompt, calls three         *)
(* provider adapters (callModelA, callModelB, callModelC) through          *)
(* Promise.all and answers with the three results, and whose               *)
(* GET /api/health handler answers with a fixed body.                      *)
(*                                                                         *)
(* JavaScript strings are sequences of one-character strings, JavaScript   *)
(* values are records tagged by field t.                                   *)
(***************************************************************************)
EXTENDS Integers, Sequences, FiniteSets, TLC

\* ------------------------------------------------------------------------
\* Bounds of the model
\* ------------------------------------------------------------------------

\* Longest prompt string a client sends.
MaxLen == 2

\* Number of compare requests a client sends over one run.
MaxReq == 2

\* Longest duration of one outbound provider call, in clock ticks.
MaxDelay == 2

\* ------------------------------------------------------------------------
\* String literals of the source
\* ------------------------------------------------------------------------

ErrorPrefix ==
  <<"E","r","r","o","r"," ","c","a","l","l","i","n","g"," ">>
LabelA ==
  <<"M","o","d","e","l"," ","A">>
LabelB ==
  <<"M","o","d","e","l"," ","B">>
LabelC ==
  <<"M","o","d","e","l"," ","C">>
ColonSpace ==
  <<":"," ">>
PromptEmptyMessage ==
  <<"P","r","o","m","p","t"," ","c","a","n","n","o","t"," ","b","e"," ","e","m","p","t","y">>
InternalErrorMessage ==
  <<"I","n","t","e","r","n","a","l"," ","s","e","r","v","e","r"," ","e","r","r","o","r">>
ServerRunningMessage ==
  <<"S","e","r","v","e","r"," ","i","s"," ","r","u","n","n","i","n","g">>

\* Messages of the errors the runtime and axios raise.
NetworkErrorMessage ==
  <<"N","e","t","w","o","r","k"," ","E","r","r","o","r">>
StatusErrorMessage ==
  <<"R","e","q","u","e","s","t"," ","f","a","i","l","e","d"," ","w","i","t","h"," ","s","t","a","t","u","s"," ","c","o","d","e"," ">>
CannotReadMessage ==
  <<"C","a","n","n","o","t"," ","r","e","a","d"," ","p","r","o","p","e","r","t","i","e","s"," ","o","f"," ">>
ReadingMessage ==
  <<" ","(","r","e","a","d","i","n","g"," ","'">>
ReadingEnd ==
  <<"'",")">>
TrimNotFunctionMessage ==
  <<"p","r","o","m","p","t",".","t","r","i","m"," ","i","s"," ","n","o","t"," ","a"," ","f","u","n","c","t","i","o","n">>
DestructureMessage ==
  <<"C","a","n","n","o","t"," ","d","e","s","t","r","u","c","t","u","r","e"," ","p","r","o","p","e","r","t","y"," ","'","p","r","o","m","p","t","'"," ","o","f"," ","'","r","e","q",".","b","o","d","y","'"," ","a","s"," ","i","t"," ","i","s"," ","u","n","d","e","f","i","n","e","d",".">>
DefaultErrorPage ==
  <<"I","n","t","e","r","n","a","l"," ","S","e","r","v","e","r"," ","E","r","r","o","r">>

\* ------------------------------------------------------------------------
\* JavaScript values
\* ------------------------------------------------------------------------

Undefined == [t |-> "undefined"]
Null == [t |-> "null"]
Str(s) == [t |-> "string", v |-> s]
Num(n) == [t |-> "number", v |-> n]
Bool(b) == [t |-> "boolean", v |-> b]
Arr(s) == [t |-> "array", v |-> s]
Obj(f) == [t |-> "object", v |-> f]
EmptyObj == Obj(<<>>)

\* A completion of an evaluation: a value, or a thrown Error with its message.
Return(v) == [t |-> "return", v |-> v]
Throw(m) == [t |-> "throw", message |-> m]

\* Property keys: a name (x.name) or an index (x[n]).
Key(name) == [idx |-> FALSE, name |-> name, n |-> 0]
Idx(n) == [idx |-> TRUE, name |-> "", n |-> n]

KeyText(k) ==
  IF k.idx THEN <<"0">>
  ELSE CASE k.name = "choices" -> <<"c","h","o","i","c","e","s">>
         [] k.name = "message" -> <<"m","e","s","s","a","g","e">>
         [] k.name = "content" -> <<"c","o","n","t","e","n","t">>
         [] k.name = "text" -> <<"t","e","x","t">>
         [] k.name = "candidates" -> <<"c","a","n","d","i","d","a","t","e","s">>
         [] k.name = "parts" -> <<"p","a","r","t","s">>
         [] k.name = "data" -> <<"d","a","t","a">>
         [] OTHER -> <<"p","r","o","m","p","t">>

TypeText(v) ==
  IF v.t = "null" THEN <<"n","u","l","l">>
  ELSE <<"u","n","d","e","f","i","n","e","d">>

\* base[key] as JavaScript evaluates it: a TypeError on undefined and null,
\* undefined for a property the value does not have.
Get(base, k) ==
  CASE base.t \in {"undefined", "null"} ->
         Throw(CannotReadMessage \o TypeText(base) \o ReadingMessage
               \o KeyText(k) \o ReadingEnd)
    [] base.t = "object" ->
         IF ~k.idx /\ k.name \in DOMAIN base.v
           THEN Return(base.v[k.name]) ELSE Return(Undefined)
    [] base.t = "array" ->
         IF k.idx /\ k.n < Len(base.v)
           THEN Return(base.v[k.n + 1]) ELSE Return(Undefined)
    [] base.t = "string" ->
         IF k.idx /\ k.n < Len(base.v)
           THEN Return(Str(<<base.v[k.n + 1]>>)) ELSE Return(Undefined)
    [] OTHER -> Return(Undefined)

\* base.k1.k2...kn, stopping at the first TypeError.
RECURSIVE GetPath(_, _)
GetPath(base, path) ==
  IF path = <<>> THEN Return(base)
  ELSE LET step == Get(base, Head(path)) IN
       IF step.t = "throw" THEN step ELSE GetPath(step.v, Tail(path))

\* Boolean coercion of the ! operator.
Truthy(v) ==
  CASE v.t \in {"undefined", "null"} -> FALSE
    [] v.t = "boolean" -> v.v
    [] v.t = "number" -> v.v # 0
    [] v.t = "string" -> Len(v.v) > 0
    [] OTHER -> TRUE

\* String.prototype.trim: strips the white space at both ends.
IsWhiteSpace(c) == c = " "

RECURSIVE TrimStart(_)
TrimStart(s) ==
  IF s # <<>> /\ IsWhiteSpace(Head(s)) THEN TrimStart(Tail(s)) ELSE s

RECURSIVE TrimEnd(_)
TrimEnd(s) ==
  IF s # <<>> /\ IsWhiteSpace(s[Len(s)])
    THEN TrimEnd(SubSeq(s, 1, Len(s) - 1)) ELSE s

\* The length test without the trim.
TrimKept(s) == s

Trim(s) == TrimEnd(TrimStart(s))

\* prompt.trim(): a TypeError when the value has no trim method.
CallTrim(v) ==
  IF v.t = "string" THEN Return(Str(Trim(v.v)))
  ELSE Throw(TrimNotFunctionMessage)

\* JSON.stringify followed by the client's JSON.parse: a property whose value
\* is undefined is left out of an object, and becomes null in an array.
RECURSIVE ToJSON(_)
ToJSON(v) ==
  CASE v.t = "object" ->
         LET keep == {k \in DOMAIN v.v : v.v[k].t # "undefined"} IN
         Obj([k \in keep |-> ToJSON(v.v[k])])
    [] v.t = "array" ->
         Arr([i \in DOMAIN v.v |->
               IF v.v[i].t = "undefined" THEN Null ELSE ToJSON(v.v[i])])
    [] OTHER -> v

StartsWith(s, prefix) ==
  Len(s) >= Len(prefix) /\ SubSeq(s, 1, Len(prefix)) = prefix

\* ------------------------------------------------------------------------
\* Providers and the outcomes of one outbound call
\* ------------------------------------------------------------------------

Providers == {"A", "B", "C"}

\* The fixed path of the generated text in each provider's response body.
PathA == <<Key("choices"), Idx(0), Key("message"), Key("content")>>
PathB == <<Key("content"), Idx(0), Key("text")>>
PathC == <<Key("candidates"), Idx(0), Key("content"), Key("parts"), Idx(0),
           Key("text")>>

PathOf(p) == CASE p = "A" -> PathA [] p = "B" -> PathB [] OTHER -> PathC

\* The request body each adapter builds from the prompt.
RequestA(prompt) ==
  Obj([model |-> Str(<<"g","p","t","-","4">>),
       messages |-> Arr(<<Obj([role |-> Str(<<"u","s","e","r">>),
                               content |-> prompt])>>),
       max_tokens |-> Num(500)])

RequestB(prompt) ==
  Obj([model |-> Str(<<"c","l","a","u","d","e">>),
       max_tokens |-> Num(500),
       messages |-> Arr(<<Obj([role |-> Str(<<"u","s","e","r">>),
                               content |-> prompt])>>)])

RequestC(prompt) ==
  Obj([contents |-> Arr(<<Obj([parts |-> Arr(<<Obj([text |-> prompt])>>)])>>)])

RequestOf(p, prompt) ==
  CASE p = "A" -> RequestA(prompt)
    [] p = "B" -> RequestB(prompt)
    [] OTHER -> RequestC(prompt)

\* What the network and the provider answer to one axios.post call.
NetworkFailure == [kind |-> "network", code |-> 0, data |-> Undefined]
StatusFailure(c) == [kind |-> "status", code |-> c, data |-> Undefined]
Ok(d) == [kind |-> "ok", code |-> 200, data |-> d]

\* Text a provider generates.
Texts == {<<"o","k">>}

\* The status outside 2xx a provider answers with: 401, its answer to a
\* missing or invalid credential (process.env.*_API_KEY unset). axios treats
\* every status outside 2xx alike.
FailureCodes == {401}

\* The value with `leaf` at `path` and nothing else.
RECURSIVE Nest(_, _)
Nest(path, leaf) ==
  IF path = <<>> THEN leaf
  ELSE IF Head(path).idx THEN Arr(<<Nest(Tail(path), leaf)>>)
       ELSE Obj(Head(path).name :> Nest(Tail(path), leaf))

EmptyContainer(k) == IF k.idx THEN Arr(<<>>) ELSE EmptyObj

\* A body that follows `path` for d levels and lacks the key of level d + 1.
Truncated(path, d) == Nest(SubSeq(path, 1, d), EmptyContainer(path[d + 1]))

\* Response bodies of a 2xx answer: the text at the path, null at the path,
\* the path cut at each level, and a body that is not JSON (axios hands
\* it over as a string).
Bodies(path) ==
  {Nest(path, Str(x)) : x \in Texts}
    \cup {Nest(path, Null)}
    \cup {Truncated(path, d) : d \in 0 .. Len(path) - 1}
    \cup {Str(<<>>)}

Outcomes(p) ==
  {NetworkFailure}
    \cup {StatusFailure(c) : c \in FailureCodes}
    \cup {Ok(d) : d \in Bodies(PathOf(p))}

\* The decimal digits of a natural number.
DigitChars == <<"0","1","2","3","4","5","6","7","8","9">>

RECURSIVE Decimal(_)
Decimal(n) ==
  IF n < 10 THEN <<DigitChars[n + 1]>>
  ELSE Decimal(n \div 10) \o <<DigitChars[(n % 10) + 1]>>

\* await axios.post(...): the response object, or the Error axios throws on
\* a network failure and on a status outside 2xx.
AxiosPost(o) ==
  CASE o.kind = "network" -> Throw(NetworkErrorMessage)
    [] o.kind = "status" -> Throw(StatusErrorMessage \o Decimal(o.code))
    [] OTHER -> Return(Obj("data" :> o.data))

\* ------------------------------------------------------------------------
\* The provider adapters
\* ------------------------------------------------------------------------

\* How the promise an async function returns settles.
Resolved(v) == [state |-> "resolved", value |-> v]
Rejected(m) == [state |-> "rejected", value |-> Str(m)]

ErrorString(label, m) == Str(ErrorPrefix \o label \o ColonSpace \o m)

\* The adapter without its try/catch: a failed call rejects its promise.
AdapterUncaught(label, path, o) ==
  LET response == AxiosPost(o) IN
  IF response.t = "throw" THEN Rejected(response.message)
  ELSE LET text == GetPath(response.v, <<Key("data")>> \o path) IN
       IF text.t = "throw" THEN Rejected(text.message)
       ELSE Resolved(text.v)

\* try { response = await axios.post(..); return response.data<path>; }
\* catch (error) { return `Error calling <label>: ${error.message}`; }
Adapter(label, path, o) ==
  LET response == AxiosPost(o) IN
  IF response.t = "throw" THEN Resolved(ErrorString(label, response.message))
  ELSE LET text == GetPath(response.v, <<Key("data")>> \o path) IN
       IF text.t = "throw" THEN Resolved(ErrorString(label, text.message))
       ELSE Resolved(text.v)

callModelA(o) == Adapter(LabelA, PathA, o)

callModelB(o) == Adapter(LabelB, PathB, o)

callModelC(o) == Adapter(LabelC, PathC, o)

callModel(p, o) ==
  CASE p = "A" -> callModelA(o)
    [] p = "B" -> callModelB(o)
    [] OTHER -> callModelC(o)

\* ------------------------------------------------------------------------
\* State
\* ------------------------------------------------------------------------

VARIABLES
  build,     \* the Express and Node versions the server runs on
  up,        \* whether the server process is running
  reqs,      \* the compare requests: what each sent, where its handler is,
             \* its adapter calls and the response it got
  outbound,  \* how many axios.post calls went out to each provider
  health,    \* the last answer of GET /api/health
  now        \* the clock

vars == <<build, up, reqs, outbound, health, now>>

Requests == 1 .. MaxReq

\* Express 4 ignores the promise an async handler returns: a handler that
\* throws leaves an unhandled rejection, which Node before 15 only warns
\* about ("express4") and Node from 15 on ends the process for
\* ("express4-exit"). Express 5 passes the rejection to its default error
\* handler, which answers 500 with an HTML page: the error's stack, or under
\* NODE_ENV=production the status text only ("express5-production").
Builds == {"express4", "express4-exit", "express5", "express5-production"}

IsExpress5(b) == b \in {"express5", "express5-production"}

\* Strings over the prompt alphabet, up to MaxLen characters.
PromptChars == {"a", " "}

PromptStrings ==
  UNION {[1 .. n -> PromptChars] : n \in 0 .. MaxLen}

\* Values of the prompt property in a JSON request body.
PromptValues ==
  {Str(s) : s \in PromptStrings}
    \cup {Null, Num(0), Num(5), Bool(FALSE), Bool(TRUE), Arr(<<>>), EmptyObj}

\* A request without a JSON body, and the JSON objects with or without a
\* prompt property.
NoBody == [t |-> "nobody"]

RequestBodies ==
  {NoBody, EmptyObj} \cup {Obj("prompt" :> v) : v \in PromptValues}

NoOutcome == [kind |-> "none", code |-> 0, data |-> Undefined]
Pending == [state |-> "pending", value |-> Undefined]

NoCall ==
  [st |-> "none", request |-> Undefined, due |-> 0, outcome |-> NoOutcome,
   result |-> Pending]

NoResponse == [status |-> 0, type |-> "none", body |-> Undefined]

NewRequest ==
  [pc |-> "new", body |-> NoBody, prompt |-> Undefined,
   calls |-> [p \in Providers |-> NoCall], response |-> NoResponse,
   thrown |-> FALSE, arrived |-> 0, answered |-> 0,
   delay |-> [p \in Providers |-> 0]]

Init ==
  /\ build \in Builds
  /\ up = TRUE
  /\ reqs = [r \in Requests |-> NewRequest]
  /\ outbound = [p \in Providers |-> 0]
  /\ health = NoResponse
  /\ now = 0

\* ------------------------------------------------------------------------
\* POST /api/compare
\* ------------------------------------------------------------------------

\* res.status(s).json(v)
JsonReply(s, v) == [status |-> s, type |-> "json", body |-> ToJSON(v)]

\* req.body as express.json() leaves it: the parsed object; without a JSON
\* body, {} under Express 4 and undefined under Express 5.
ReqBody(b, body) ==
  IF body = NoBody THEN (IF IsExpress5(b) THEN Undefined ELSE EmptyObj)
  ELSE body

\* The handler from its entry to its first await: what it does with the
\* request. k = "reply": it answers at once; k = "throw": an Error leaves
\* the handler; k = "dispatch": it calls the three adapters with prompt.
Entered(k, prompt, reply, message) ==
  [k |-> k, prompt |-> prompt, reply |-> reply, message |-> message]

BadRequest == JsonReply(400, Obj("error" :> Str(PromptEmptyMessage)))

\* Validation that hands the trimmed prompt on: prompt = prompt.trim().
ValidateTrimmed(prompt) ==
  IF ~Truthy(prompt) THEN Entered("reply", prompt, BadRequest, <<>>)
  ELSE LET trimmed == CallTrim(prompt) IN
       IF trimmed.t = "throw"
         THEN Entered("throw", prompt, NoResponse, trimmed.message)
       ELSE IF Len(trimmed.v.v) = 0
         THEN Entered("reply", prompt, BadRequest, <<>>)
       ELSE Entered("dispatch", trimmed.v, NoResponse, <<>>)

Validate(prompt) ==
  IF ~Truthy(prompt) THEN Entered("reply", prompt, BadRequest, <<>>)
  ELSE LET trimmed == CallTrim(prompt) IN
       IF trimmed.t = "throw"
         THEN Entered("throw", prompt, NoResponse, trimmed.message)
       ELSE IF Len(trimmed.v.v) = 0
         THEN Entered("reply", prompt, BadRequest, <<>>)
       ELSE Entered("dispatch", prompt, NoResponse, <<>>)

Enter(b, body) ==
  LET got == Get(ReqBody(b, body), Key("prompt")) IN
  IF got.t = "throw"
    THEN Entered("throw", Undefined, NoResponse, DestructureMessage)
  ELSE Validate(got.v)

\* What the client gets when an Error leaves the handler.
DefaultErrorReply(b, message) ==
  CASE b = "express5" ->
         [status |-> 500, type |-> "html", body |-> Str(message)]
    [] b = "express5-production" ->
         [status |-> 500, type |-> "html", body |-> Str(DefaultErrorPage)]
    [] OTHER -> NoResponse

\* The second call started only after the first has settled, the third after
\* the second: await callModelA(..); await callModelB(..); await callModelC(..).
SettleTimeSequential(p, t, delay) ==
  CASE p = "A" -> t + delay["A"]
    [] p = "B" -> t + delay["A"] + delay["B"]
    [] OTHER -> t + delay["A"] + delay["B"] + delay["C"]

\* When the call to provider p settles, for calls started at time t with the
\* durations delay: the three calls are started one after the other without
\* an await in between, so each runs from t on.
SettleTime(p, t, delay) == t + delay[p]

StartCall(p, prompt, t, delay) ==
  [st |-> "pending", request |-> RequestOf(p, prompt),
   due |-> SettleTime(p, t, delay), outcome |-> NoOutcome, result |-> Pending]

\* The request arrives and the handler runs up to await Promise.all([...]).
PostCompare(r, body, delay) ==
  /\ up
  /\ reqs[r].pc = "new"
  /\ LET e == Enter(build, body)
         base == [reqs[r] EXCEPT !.body = body, !.prompt = e.prompt,
                                 !.arrived = now, !.answered = now]
     IN
     CASE e.k = "reply" ->
            /\ reqs' = [reqs EXCEPT ![r] =
                 [base EXCEPT !.pc = "done", !.response = e.reply]]
            /\ UNCHANGED <<up, outbound>>
       [] e.k = "throw" ->
            /\ reqs' = [reqs EXCEPT ![r] =
                 [base EXCEPT
                    !.thrown = TRUE,
                    !.pc = IF IsExpress5(build) THEN "done" ELSE "hung",
                    !.response = DefaultErrorReply(build, e.message)]]
            /\ up' = (build # "express4-exit")
            /\ UNCHANGED outbound
       [] OTHER ->
            /\ reqs' = [reqs EXCEPT ![r] =
                 [base EXCEPT
                    !.pc = "awaiting",
                    !.delay = delay,
                    !.calls = [p \in Providers |->
                                 StartCall(p, e.prompt, now, delay)]]]
            /\ outbound' = [p \in Providers |-> outbound[p] + 1]
            /\ UNCHANGED up
  /\ UNCHANGED <<build, health, now>>

\* An adapter that issues its call again when it failed.
SettleRetry(r, p, o) ==
  /\ up
  /\ reqs[r].pc = "awaiting"
  /\ reqs[r].calls[p].st = "pending"
  /\ reqs[r].calls[p].due = now
  /\ IF o.kind = "ok"
       THEN /\ reqs' = [reqs EXCEPT ![r].calls[p] =
                 [@ EXCEPT !.st = "settled", !.outcome = o,
                           !.result = callModel(p, o)]]
            /\ UNCHANGED outbound
       ELSE /\ outbound' = [outbound EXCEPT ![p] = @ + 1]
            /\ UNCHANGED reqs
  /\ UNCHANGED <<build, up, health, now>>

\* The axios.post call of request r to provider p settles with outcome o and
\* the adapter runs to its return.
Settle(r, p, o) ==
  /\ up
  /\ reqs[r].pc = "awaiting"
  /\ reqs[r].calls[p].st = "pending"
  /\ reqs[r].calls[p].due = now
  /\ reqs' = [reqs EXCEPT ![r].calls[p] =
       [@ EXCEPT !.st = "settled", !.outcome = o, !.result = callModel(p, o)]]
  /\ UNCHANGED <<build, up, outbound, health, now>>

\* Promise.all: rejected as soon as one promise is, resolved with the values
\* in the order of the array once every promise is, pending until then.
PromiseAll(calls) ==
  IF \E p \in Providers : calls[p].result.state = "rejected"
    THEN Rejected(InternalErrorMessage)
  ELSE IF \A p \in Providers : calls[p].result.state = "resolved"
    THEN Resolved(Arr(<<calls["A"].result.value, calls["B"].result.value,
                        calls["C"].result.value>>))
  ELSE Pending

\* The answer with the results of B and C in each other's slot.
CompareReplySwapped(joined) ==
  IF joined.state = "rejected"
    THEN JsonReply(500, Obj("error" :> Str(InternalErrorMessage)))
  ELSE JsonReply(200, Obj([modelA |-> joined.value.v[1],
                           modelB |-> joined.value.v[3],
                           modelC |-> joined.value.v[2]]))

\* The try block after the await: res.json of the three results, or the
\* catch block's 500.
CompareReply(joined) ==
  IF joined.state = "rejected"
    THEN JsonReply(500, Obj("error" :> Str(InternalErrorMessage)))
  ELSE JsonReply(200, Obj([modelA |-> joined.value.v[1],
                           modelB |-> joined.value.v[2],
                           modelC |-> joined.value.v[3]]))

\* The results kept in variables of the module instead of the handler's own:
\* a handler answers with the results of whichever request has them all.
RespondShared(r) ==
  /\ up
  /\ reqs[r].pc = "awaiting"
  /\ \E q \in Requests :
       LET joined == PromiseAll(reqs[q].calls) IN
       /\ joined.state # "pending"
       /\ reqs' = [reqs EXCEPT ![r] =
            [@ EXCEPT !.pc = "done", !.response = CompareReply(joined),
                      !.answered = now]]
  /\ UNCHANGED <<build, up, outbound, health, now>>

\* The handler resumes from await Promise.all([...]) and answers.
Respond(r) ==
  /\ up
  /\ reqs[r].pc = "awaiting"
  /\ LET joined == PromiseAll(reqs[r].calls) IN
     /\ joined.state # "pending"
     /\ reqs' = [reqs EXCEPT ![r] =
          [@ EXCEPT !.pc = "done", !.response = CompareReply(joined),
                    !.answered = now]]
  /\ UNCHANGED <<build, up, outbound, health, now>>

\* The client has read the response; nothing of the request is kept.
Close(r) ==
  /\ reqs[r].pc = "done"
  /\ reqs' = [reqs EXCEPT ![r] = [NewRequest EXCEPT !.pc = "closed"]]
  /\ UNCHANGED <<build, up, outbound, health, now>>

\* ------------------------------------------------------------------------
\* GET /api/health
\* ------------------------------------------------------------------------

\* A health check that reports the providers' availability.
HealthReplyByProviders ==
  IF \E r \in Requests : \E p \in Providers :
       reqs[r].calls[p].outcome.kind \in {"network", "status"}
    THEN JsonReply(503, Obj("status" :> Str(NetworkErrorMessage)))
    ELSE JsonReply(200, Obj("status" :> Str(ServerRunningMessage)))

HealthReply == JsonReply(200, Obj("status" :> Str(ServerRunningMessage)))

GetHealth ==
  /\ up
  /\ health' = HealthReply
  /\ UNCHANGED <<build, up, reqs, outbound, now>>

\* ------------------------------------------------------------------------
\* Specifications
\* ------------------------------------------------------------------------

NoDelay == [p \in Providers |-> 0]

\* One client that sends its requests one after the other.
Serial(r) ==
  \A q \in Requests \ {r} :
    reqs[q].pc = (IF q < r THEN "closed" ELSE "new")

Next ==
  \/ \E r \in Requests, body \in RequestBodies :
       Serial(r) /\ PostCompare(r, body, NoDelay)
  \/ \E r \in Requests, p \in Providers :
       \E o \in Outcomes(p) : Settle(r, p, o)
  \/ \E r \in Requests : Respond(r)
  \/ \E r \in Requests : Close(r)
  \/ GetHealth

Spec == Init /\ [][Next]_vars

\* A few request bodies and, for each provider, a few outcomes: a valid, a
\* blank and a non-string prompt; a network failure, an answer with the text
\* and, for provider A, an answer whose body lacks the last key of the path.
FewBodies ==
  {Obj("prompt" :> Str(<<"a">>)), Obj("prompt" :> Str(<<" ">>)),
   Obj("prompt" :> Num(5))}

FewOutcomes(p) ==
  {NetworkFailure}
    \cup {Ok(Nest(PathOf(p), Str(x))) : x \in Texts}
    \cup (IF p = "A" THEN {Ok(Truncated(PathA, Len(PathA) - 1))} ELSE {})

\* Several clients: requests arrive while others are in flight.
InOrder(r) == \A q \in Requests : q < r => reqs[q].pc # "new"

NextConcurrent ==
  \/ \E r \in Requests, body \in FewBodies :
       InOrder(r) /\ PostCompare(r, body, NoDelay)
  \/ \E r \in Requests, p \in Providers :
       \E o \in FewOutcomes(p) : Settle(r, p, o)
  \/ \E r \in Requests : Respond(r)

SpecConcurrent == Init /\ [][NextConcurrent]_vars

\* Several clients, each with a prompt of its own.
ClientPrompt(r) == Str([i \in 1 .. r |-> "a"])

ClientBodies(r) ==
  {Obj("prompt" :> ClientPrompt(r)), Obj("prompt" :> Str(<<" ">>)),
   Obj("prompt" :> Num(5))}

NextClients ==
  \/ \E r \in Requests : \E body \in ClientBodies(r) :
       InOrder(r) /\ PostCompare(r, body, NoDelay)
  \/ \E r \in Requests, p \in Providers :
       \E o \in FewOutcomes(p) : Settle(r, p, o)
  \/ \E r \in Requests : Respond(r)

SpecClients == Init /\ [][NextClients]_vars

\* Time passes while provider calls are pending: the handler's own steps
\* take no time, so the clock stands still while a call is due or a handler
\* can resume.
Tick ==
  /\ up
  /\ \E r \in Requests : reqs[r].pc = "awaiting"
  /\ \A r \in Requests :
       reqs[r].pc = "awaiting" =>
         /\ PromiseAll(reqs[r].calls).state = "pending"
         /\ \A p \in Providers :
              reqs[r].calls[p].st = "pending" => reqs[r].calls[p].due > now
  /\ now' = now + 1
  /\ UNCHANGED <<build, up, reqs, outbound, health>>

Delays == [Providers -> 1 .. MaxDelay]

NextTimed ==
  \/ \E r \in Requests, body \in FewBodies, delay \in Delays :
       Serial(r) /\ PostCompare(r, body, delay)
  \/ \E r \in Requests, p \in Providers :
       \E o \in FewOutcomes(p) : Settle(r, p, o)
  \/ \E r \in Requests : Respond(r)
  \/ \E r \in Requests : Close(r)
  \/ Tick

SpecTimed == Init /\ [][NextTimed]_vars

\* ------------------------------------------------------------------------
\* Vocabulary of the properties
\* ------------------------------------------------------------------------

\* The prompt a request body carries; undefined when it carries none.
PromptOf(body) ==
  IF body.t = "object" /\ "prompt" \in DOMAIN body.v
    THEN body.v["prompt"] ELSE Undefined

\* A string with a character that is not white space.
IsValidPrompt(v) ==
  v.t = "string" /\ \E i \in 1 .. Len(v.v) : v.v[i] # " "

\* The empty string or a string of white space only.
IsBlankString(v) ==
  v.t = "string" /\ \A i \in 1 .. Len(v.v) : v.v[i] = " "

\* Request r has reached the server and is still on record.
Sent(r) == reqs[r].pc \notin {"new", "closed"}

ValidSent(r) == Sent(r) /\ IsValidPrompt(PromptOf(reqs[r].body))

Slots == {"modelA", "modelB", "modelC"}

SlotOf(p) ==
  CASE p = "A" -> "modelA" [] p = "B" -> "modelB" [] OTHER -> "modelC"

LabelOf(p) ==
  CASE p = "A" -> LabelA [] p = "B" -> LabelB [] OTHER -> LabelC

HasSlot(resp, k) ==
  resp.type = "json" /\ resp.body.t = "object" /\ k \in DOMAIN resp.body.v

HasStringSlot(resp, k) == HasSlot(resp, k) /\ resp.body.v[k].t = "string"

IsErrorString(v) == v.t = "string" /\ StartsWith(v.v, ErrorPrefix)

\* The provider answered 2xx with generated text at the adapter's path.
TextFound(p, o) == \E x \in Texts : o = Ok(Nest(PathOf(p), Str(x)))

TextIn(p, o) == CHOOSE x \in Texts : o = Ok(Nest(PathOf(p), Str(x)))

\* The call has settled and did not deliver generated text: a network error,
\* a status outside 2xx (a missing credential among them), or a body that
\* does not have the expected shape.
CallFailed(r, p) ==
  reqs[r].calls[p].st = "settled" /\ ~TextFound(p, reqs[r].calls[p].outcome)

CallSucceeded(r, p) ==
  reqs[r].calls[p].st = "settled" /\ TextFound(p, reqs[r].calls[p].outcome)

Answered(r) == reqs[r].pc = "done"

NoCallStarted(r) == \A p \in Providers : reqs[r].calls[p].st = "none"

BadRequestBody == Obj("error" :> Str(PromptEmptyMessage))

InternalErrorBody == Obj("error" :> Str(InternalErrorMessage))

\* ------------------------------------------------------------------------
\* Properties
\* ------------------------------------------------------------------------

\* C1: every answered compare request with a string prompt that is not
\* blank is answered 200 with the three slots modelA, modelB and modelC,
\* each a string, whatever the three provider calls came to.
C1_ValidPromptGetsThreeStrings ==
  \A r \in Requests :
    ValidSent(r) /\ Answered(r) =>
      /\ reqs[r].response.status = 200
      /\ \A k \in Slots : HasStringSlot(reqs[r].response, k)

\* C2: a compare request whose prompt is the empty string or white space
\* only is answered 400 with { error: "Prompt cannot be empty" }, and no
\* provider call is started for it.
C2_BlankPromptRejected ==
  \A r \in Requests :
    Sent(r) /\ IsBlankString(PromptOf(reqs[r].body)) =>
      /\ Answered(r)
      /\ reqs[r].response = [status |-> 400, type |-> "json",
                             body |-> BadRequestBody]
      /\ NoCallStarted(r)

C2_WhitespacePromptAnswered ==
  \E r \in Requests :
    /\ Answered(r)
    /\ reqs[r].body = Obj("prompt" :> Str(<<" ", " ">>))
    /\ reqs[r].response.status = 400

\* C3: every compare request whose prompt is absent, not a string, or blank
\* is answered 400 and starts no provider call.
C3_InvalidPromptRejected ==
  \A r \in Requests :
    Sent(r) /\ ~IsValidPrompt(PromptOf(reqs[r].body)) =>
      /\ reqs[r].response.status = 400
      /\ NoCallStarted(r)

\* C4: when exactly one provider call of an answered valid request failed
\* and the other two succeeded, the answer is 200, the failing provider's
\* slot is a string starting with "Error calling ", and the other two slots
\* hold the text of their providers' responses.
C4_OneFailureIsolated ==
  \A r \in Requests : \A p \in Providers :
    /\ ValidSent(r) /\ Answered(r)
    /\ CallFailed(r, p)
    /\ \A q \in Providers \ {p} : CallSucceeded(r, q)
    => /\ reqs[r].response.status = 200
       /\ HasSlot(reqs[r].response, SlotOf(p))
       /\ IsErrorString(reqs[r].response.body.v[SlotOf(p)])
       /\ \A q \in Providers \ {p} :
            /\ HasSlot(reqs[r].response, SlotOf(q))
            /\ reqs[r].response.body.v[SlotOf(q)]
                 = Str(TextIn(q, reqs[r].calls[q].outcome))

\* C5: when all three provider calls of an answered valid request failed,
\* the answer is 200 with an error string in each slot; no answer to a valid
\* request is a 500.
C5_AllFailuresStill200 ==
  \A r \in Requests :
    ValidSent(r) /\ Answered(r) =>
      /\ reqs[r].response.status # 500
      /\ (\A p \in Providers : CallFailed(r, p)) =>
           /\ reqs[r].response.status = 200
           /\ \A p \in Providers :
                /\ HasSlot(reqs[r].response, SlotOf(p))
                /\ IsErrorString(reqs[r].response.body.v[SlotOf(p)])

\* C6: an adapter never rejects; when its call failed it returns the string
\* "Error calling <Provider Label>: <message>", and it returns anything else
\* only when the generated text was found at its path.
C6_AdapterReturnsTextOrErrorString ==
  \A r \in Requests : \A p \in Providers :
    reqs[r].calls[p].st = "settled" =>
      LET result == reqs[r].calls[p].result IN
      /\ result.state = "resolved"
      /\ CallFailed(r, p) =>
           /\ result.value.t = "string"
           /\ StartsWith(result.value.v,
                         ErrorPrefix \o LabelOf(p) \o ColonSpace)
      /\ CallSucceeded(r, p) =>
           result.value = Str(TextIn(p, reqs[r].calls[p].outcome))

\* C7: a compare request during whose handling an exception was raised is
\* answered 500 with { error: "Internal server error" }.
C7_ExceptionAnswered500 ==
  \A r \in Requests :
    Sent(r) /\ reqs[r].thrown =>
      reqs[r].response = [status |-> 500, type |-> "json",
                          body |-> InternalErrorBody]

\* C8: while the server process runs, GET /api/health is answered, and every
\* answer is 200 with { status: "Server is running" }, whatever the compare
\* requests and their provider calls have come to.
C8_HealthAlways200 ==
  /\ up => ENABLED GetHealth
  /\ health # NoResponse =>
       health = [status |-> 200, type |-> "json",
                 body |-> Obj("status" :> Str(ServerRunningMessage))]

C8_HealthDuringFailure ==
  /\ health.status = 200
  /\ \E r \in Requests :
       /\ reqs[r].pc = "awaiting"
       /\ \E p \in Providers : CallFailed(r, p)
       /\ \E p \in Providers : reqs[r].calls[p].st = "pending"

\* The JSON type of each slot of a response, "absent" for a slot it lacks.
Shape(resp) ==
  [k \in Slots |-> IF HasSlot(resp, k) THEN resp.body.v[k].t ELSE "absent"]

\* C9: two answered requests with the same valid prompt have the same
\* status and the same structure, whatever their provider calls came to.
C9_SamePromptSameShape ==
  \A r1 \in Requests : \A r2 \in Requests \ {r1} :
    /\ ValidSent(r1) /\ Answered(r1)
    /\ ValidSent(r2) /\ Answered(r2)
    /\ reqs[r1].body = reqs[r2].body
    => /\ reqs[r1].response.status = reqs[r2].response.status
       /\ Shape(reqs[r1].response) = Shape(reqs[r2].response)

Max(S) == CHOOSE x \in S : \A y \in S : y <= x

SumOver(f) == f["A"] + f["B"] + f["C"]

\* C10: the time from the arrival of a valid compare request to its answer
\* is at most the duration of its slowest provider call.
C10_ElapsedIsSlowestCall ==
  \A r \in Requests :
    ValidSent(r) /\ Answered(r) =>
      reqs[r].answered - reqs[r].arrived
        <= Max({reqs[r].delay[p] : p \in Providers})

C10_SlowestBelowSum ==
  \E r \in Requests :
    /\ ValidSent(r) /\ Answered(r)
    /\ reqs[r].delay = [A |-> 1, B |-> MaxDelay, C |-> 1]
    /\ reqs[r].answered - reqs[r].arrived = MaxDelay
    /\ SumOver(reqs[r].delay) > MaxDelay

\* C11: the three adapter calls of a request are started together, none
\* waiting for another to settle, and the response to a request whose calls
\* were started is sent only after all three have settled.
C11_AnswerAfterAllSettled ==
  \A r \in Requests :
    /\ (\E p \in Providers : reqs[r].calls[p].st # "none")
         => \A p \in Providers : reqs[r].calls[p].st # "none"
    /\ ValidSent(r) /\ reqs[r].response # NoResponse
         => \A p \in Providers : reqs[r].calls[p].st = "settled"

C11_AnsweredAfterFailure ==
  \E r \in Requests :
    /\ ValidSent(r) /\ Answered(r)
    /\ reqs[r].calls["A"].outcome = NetworkFailure
    /\ \A p \in Providers : reqs[r].calls[p].st = "settled"

\* The value in provider p's slot of a response, undefined for a slot the
\* response lacks.
SlotValue(resp, p) ==
  IF HasSlot(resp, SlotOf(p)) THEN resp.body.v[SlotOf(p)] ELSE Undefined

Is200(r) == Answered(r) /\ reqs[r].response.status = 200

\* C12: in 200 answers, a provider's slot is determined by the outcome of
\* that provider's call alone: two answers whose calls to provider p had the
\* same outcome hold the same value in p's slot, whatever the other two
\* calls came to and in whatever order the calls settled.
C12_SlotFollowsOwnProvider ==
  \A r1 \in Requests : \A r2 \in Requests \ {r1} :
    Is200(r1) /\ Is200(r2) =>
      \A p \in Providers :
        reqs[r1].calls[p].outcome = reqs[r2].calls[p].outcome =>
          SlotValue(reqs[r1].response, p) = SlotValue(reqs[r2].response, p)

C12_OtherProviderDiffers ==
  \E r1 \in Requests : \E r2 \in Requests \ {r1} :
    /\ Is200(r1) /\ Is200(r2)
    /\ reqs[r1].calls["B"].outcome = reqs[r2].calls["B"].outcome
    /\ reqs[r1].calls["C"].outcome = NetworkFailure
    /\ reqs[r2].calls["C"].outcome # NetworkFailure
    /\ reqs[r1].calls["A"].outcome # reqs[r2].calls["A"].outcome
    /\ SlotValue(reqs[r1].response, "B") = SlotValue(reqs[r2].response, "B")

\* Where each provider's request body carries the prompt.
PromptPath(p) ==
  IF p = "C"
    THEN <<Key("contents"), Idx(0), Key("parts"), Idx(0), Key("text")>>
    ELSE <<Key("messages"), Idx(0), Key("content")>>

\* The prompt in the request body sent to provider p.
PromptSent(p, request) == GetPath(request, PromptPath(p)).v

\* What a client reads in a slot that was given the value v.
SlotRead(v) == IF v.t = "undefined" THEN Undefined ELSE v

\* C13: with several requests in flight and their calls settling in any
\* order, every call of a request carries that request's prompt, a blank
\* prompt is answered 400 whatever the other requests are, and the answer to
\* a valid request is 200 with, in each slot, the result of the call that
\* request started to that provider.
C13_AnswerFromOwnCalls ==
  \A r \in Requests :
    /\ \A p \in Providers :
         reqs[r].calls[p].st # "none" =>
           PromptSent(p, reqs[r].calls[p].request) = PromptOf(reqs[r].body)
    /\ Answered(r) /\ IsBlankString(PromptOf(reqs[r].body)) =>
         reqs[r].response.status = 400
    /\ Answered(r) /\ ValidSent(r) =>
         /\ reqs[r].response.status = 200
         /\ \A p \in Providers :
              /\ reqs[r].calls[p].st = "settled"
              /\ SlotValue(reqs[r].response, p)
                   = SlotRead(reqs[r].calls[p].result.value)

C13_AnsweredWhileOtherInFlight ==
  \E r1 \in Requests : \E r2 \in Requests \ {r1} :
    /\ Is200(r1)
    /\ reqs[r2].pc = "awaiting"
    /\ PromptOf(reqs[r1].body) # PromptOf(reqs[r2].body)
    /\ reqs[r2].calls["A"].st = "settled"
    /\ reqs[r2].calls["B"].st = "pending"
    /\ reqs[r1].calls["A"].outcome # reqs[r2].calls["A"].outcome

\* C14: the calls that went out to each provider are one for each valid
\* request received, no more after a call has failed and no fewer for a
\* request that follows a failure; a request that is not valid has none.
C14_OneCallPerValidRequest ==
  /\ \A p \in Providers :
       outbound[p] = Cardinality({r \in Requests : ValidSent(r)})
  /\ \A r \in Requests :
       Sent(r) =>
         (ValidSent(r) <=> \A p \in Providers : reqs[r].calls[p].st # "none")

C14_CalledAgainAfterFailure ==
  \E r1 \in Requests : \E r2 \in Requests :
    /\ r1 < r2
    /\ ValidSent(r1) /\ Answered(r1)
    /\ reqs[r1].calls["A"].outcome = NetworkFailure
    /\ ValidSent(r2)
    /\ reqs[r2].calls["A"].st = "pending"
    /\ outbound["A"] = 2

\* C15: the three adapters of a valid request are called with the prompt of
\* the request body as it was received, its leading and trailing white space
\* included.
C15_PromptForwardedUnchanged ==
  \A r \in Requests :
    ValidSent(r) =>
      \A p \in Providers :
        /\ reqs[r].calls[p].st # "none"
        /\ PromptSent(p, reqs[r].calls[p].request) = PromptOf(reqs[r].body)

C15_PaddedPromptForwarded ==
  \E r \in Requests :
    /\ reqs[r].pc = "awaiting"
    /\ reqs[r].body = Obj("prompt" :> Str(<<" ", "a">>))
    /\ PromptSent("C", reqs[r].calls["C"].request) = Str(<<" ", "a">>)

\* C16: a request that has been received and has no response yet is still
\* waiting for one of its provider calls, or its handler is about to answer:
\* no request is left without a response once its calls have settled.
C16_UnansweredOnlyWhilePending ==
  \A r \in Requests :
    Sent(r) /\ reqs[r].response = NoResponse =>
      \/ \E p \in Providers : reqs[r].calls[p].st = "pending"
      \/ ENABLED Respond(r)

====
